---- MODULE Spec2Model ----
(***************************************************************************)
(* nerka: a wiki server.  This module models                               *)
(*   - the page-lock manager of src/main.go (mutex, locks, lockExpires,    *)
(*     lockOrExtend, unlock and the expiry goroutine lockOrExtend starts), *)
(*   - the sandboxed file lookup (read, readExt), and                      *)
(*   - the link annotation loop of handle.                                 *)
(* Times are whole seconds.  Strings that the code inspects character by   *)
(* character (paths) are sequences of one-character strings.               *)
(***************************************************************************)
EXTENDS Integers, Sequences, FiniteSets, Bags, TLC

\* ------------------------------------------------------------------ bounds
MaxTime == 120
MaxWatchers == 2
MaxSegs == 3
MaxAttrs == 2

\* --------------------------------------------------------------- constants
\* time.Minute, in seconds (lockOrExtend: time.Now().Add(time.Minute))
Minute == 60
\* the zero time.Time a map read yields for a missing key; before every now
ZeroTime == -1

Callers == {"c1", "c2"}
Pages == {"/a", "/b"}
Tokens == {"A", "B"}
\* the clock is observed every half minute
TickSteps == {30}
\* sync.Mutex has no owner: it is locked or not
Unlocked == "unlocked"
Locked == "locked"

VARIABLES
    now,          \* time.Now(), seconds
    mutex,        \* sync.Mutex: Unlocked or Locked
    locks,        \* map page -> lock token
    lockExpires,  \* map page -> expiry time
    pc,           \* per caller: "idle", "lock" (at mutex.Lock), "check", "set", "delete"
    call,         \* per caller: the call in progress (op, page, lock), and the
                  \* HTTP request it is made for, if any
    last,         \* history: since the latest call was made, the call that
                  \* returned last and what it returned, or the removal of an
                  \* entry by an expiry goroutine
    watch,        \* the running expiry goroutines: a bag of [pc, page, expires]
    race,         \* history: the two callers' current calls are a concurrent
                  \* pair of lockOrExtend on one unlocked page, tokens differing
    files,        \* the regular files on disk (absolute paths); a file's
                  \* content is identified with its path
    req,          \* the file lookup or annotation made last: its input
    out,          \* ... and its result, with the paths it gave to ReadFile
    http          \* the HTTP request answered last, and the response to it

lockVars == <<now, mutex, locks, lockExpires, pc, call, last, watch, race>>
fsVars == <<files, req, out>>

\* ------------------------------------------------------------ Go map helpers
Has(m, k) == k \in DOMAIN m
Put(m, k, v) == [x \in (DOMAIN m) \cup {k} |-> IF x = k THEN v ELSE m[x]]
Delete(m, k) == [x \in (DOMAIN m) \ {k} |-> m[x]]
EmptyMap == [x \in {} |-> 0]
\* lockExpires[page]: the zero time when the key is missing
\* (variant first: a missing key read as a time that never comes)
ExpiresOfNever(m, k) == IF Has(m, k) THEN m[k] ELSE MaxTime + Minute

ExpiresOf(m, k) == IF Has(m, k) THEN m[k] ELSE ZeroTime
\* time.Time.Before
Before(t, u) == t < u

\* ------------------------------------------------- requests and responses
\* r.Cookie("nerka"): its value, or the error that there is none
NoCookie == [set |-> FALSE, value |-> <<>>]
Cookie(v) == [set |-> TRUE, value |-> v]
\* r.Method, r.URL.Path, the nerka cookie, r.Body
NoRequest == [method |-> "none", path |-> <<>>, cookie |-> NoCookie, body |-> ""]
\* what handle writes to w: the status (200 when nothing else is set), the
\* Allow and Location headers, the cookie it sets, and the body: a message, or
\* the content of a file (a page's content stands for its rendering)
Response(status, allow, location, cookie, text, data) ==
    [status |-> status, allow |-> allow, location |-> location, cookie |-> cookie,
     text |-> text, data |-> data]
NoResponse == Response(0, "", <<>>, NoCookie, "", <<>>)
NoExchange == [req |-> NoRequest, resp |-> NoResponse]

NoCall == [op |-> "none", page |-> "/a", lock |-> "A", req |-> NoRequest]
Nothing == [op |-> "none", out |-> "none"]

\* the expiry goroutines that have not returned
Running == BagToSet(watch)
\* go func(page string) {...}(page): one more goroutine, at the top of its
\* loop.  Its variable expires is assigned from lockExpires before every read,
\* so the model carries it from that assignment to the end of the sleep only.
Go(b, p) ==
    b (+) SetToBag({[pc |-> "lock", page |-> p, expires |-> ZeroTime]})
\* goroutine w moves on to state v
Step(b, w, v) == (b (-) SetToBag({w})) (+) SetToBag({v})
\* goroutine w returns
Exit(b, w) == b (-) SetToBag({w})
\* lockOrExtend calls issued and not yet returned (each may start a goroutine)
PendingLocks == {c \in Callers : pc[c] # "idle" /\ call[c].op = "lockOrExtend"}

LockInit ==
    /\ now = 0
    /\ mutex = Unlocked
    /\ locks = EmptyMap
    /\ lockExpires = EmptyMap
    /\ pc = [c \in Callers |-> "idle"]
    /\ call = [c \in Callers |-> NoCall]
    /\ last = Nothing
    /\ watch = EmptyBag
    /\ race = FALSE
    /\ http = NoExchange

\* ------------------------------------------------------------------ clock
Tick ==
    /\ \E d \in TickSteps :
        /\ now + d <= MaxTime
        /\ now' = now + d
    /\ UNCHANGED <<mutex, locks, lockExpires, pc, call, last, watch, race>>
    /\ UNCHANGED <<fsVars, http>>

\* ------------------------------------------------------------------ callers
\* the new call and a call still waiting for the mutex are two lockOrExtend
\* on one page that is unlocked, with different tokens
Racing(c, o, p, t) ==
    /\ o = "lockOrExtend"
    /\ ~Has(locks, p)
    /\ \E d \in Callers \ {c} :
        /\ pc[d] = "lock"
        /\ call[d].op = "lockOrExtend"
        /\ call[d].page = p
        /\ call[d].lock # t

\* a request handler calls lockOrExtend(page, lock) or unlock(page, lock)
CallOn(c, pages) ==
    /\ pc[c] = "idle"
    /\ \E o \in {"lockOrExtend", "unlock"}, p \in pages, t \in Tokens :
        /\ o = "lockOrExtend" =>
              BagCardinality(watch) + Cardinality(PendingLocks) < MaxWatchers
        /\ call' = [call EXCEPT ![c] = [op |-> o, page |-> p, lock |-> t,
                                        req |-> NoRequest]]
        /\ race' = Racing(c, o, p, t)
    /\ pc' = [pc EXCEPT ![c] = "lock"]
    /\ last' = Nothing
    /\ UNCHANGED <<now, mutex, locks, lockExpires, watch>>
    /\ UNCHANGED <<fsVars, http>>

Call(c) == CallOn(c, Pages)

\* mutex.Lock() at the top of lockOrExtend and of unlock
\* (variant first: a lock that does not wait)
EnterUnguarded(c) ==
    /\ pc[c] = "lock"
    /\ mutex' = Locked
    /\ pc' = [pc EXCEPT ![c] = "check"]
    /\ UNCHANGED <<now, locks, lockExpires, call, last, watch, race>>
    /\ UNCHANGED <<fsVars, http>>

Enter(c) ==
    /\ pc[c] = "lock"
    /\ mutex = Unlocked
    /\ mutex' = Locked
    /\ pc' = [pc EXCEPT ![c] = "check"]
    /\ UNCHANGED <<now, locks, lockExpires, call, last, watch, race>>
    /\ UNCHANGED <<fsVars, http>>

\* handle after lockOrExtend has returned: 409 with the error, or 200
Reply(r, err) ==
    IF r = NoRequest THEN http
    ELSE [req |-> r,
          resp |-> IF err # "ok"
                   THEN Response(409, "", <<>>, NoCookie, err, <<>>)
                   ELSE Response(200, "", <<>>, NoCookie, "", <<>>)]

\* return err, with the deferred mutex.Unlock(); the caller goes on with err
Return(c, err) ==
    /\ last' = [op |-> call[c].op, out |-> err]
    /\ http' = Reply(call[c].req, err)
    /\ mutex' = Unlocked
    /\ pc' = [pc EXCEPT ![c] = "idle"]
    /\ call' = [call EXCEPT ![c] = NoCall]

\* hasLock && bytes.Compare(currentLock, lock) != 0
\* (variant first: the comparison inverted)
ConflictInverted(m, p, t) == Has(m, p) /\ m[p] = t

Conflict(m, p, t) == Has(m, p) /\ m[p] # t

\* lockOrExtend: currentLock, hasLock := locks[page] and the comparison
lockOrExtendCheck(c) ==
    /\ pc[c] = "check"
    /\ call[c].op = "lockOrExtend"
    /\ IF Conflict(locks, call[c].page, call[c].lock)
       THEN Return(c, "already locked")
       ELSE /\ pc' = [pc EXCEPT ![c] = "set"]
            /\ UNCHANGED <<mutex, call, last, http>>
    /\ UNCHANGED <<now, locks, lockExpires, watch, race>>
    /\ UNCHANGED fsVars

\* lockOrExtend from "// lock" on: the two writes, the go statement, return nil
lockOrExtendSet(c) ==
    /\ pc[c] = "set"
    /\ call[c].op = "lockOrExtend"
    /\ LET p == call[c].page
           expires == now + Minute
       IN /\ locks' = Put(locks, p, call[c].lock)
          /\ lockExpires' = Put(lockExpires, p, expires)
          /\ watch' = Go(watch, p)
    /\ Return(c, "ok")
    /\ UNCHANGED <<now, race>>
    /\ UNCHANGED fsVars

\* unlock: currentLock, hasLock := locks[page] and the comparison
\* (variant first: the token not compared)
unlockCheckAnyToken(c) ==
    /\ pc[c] = "check"
    /\ call[c].op = "unlock"
    /\ pc' = [pc EXCEPT ![c] = "delete"]
    /\ UNCHANGED <<now, mutex, call, last, locks, lockExpires, watch, race>>
    /\ UNCHANGED <<fsVars, http>>

unlockCheck(c) ==
    /\ pc[c] = "check"
    /\ call[c].op = "unlock"
    /\ IF Conflict(locks, call[c].page, call[c].lock)
       THEN Return(c, "locked by someone else")
       ELSE /\ pc' = [pc EXCEPT ![c] = "delete"]
            /\ UNCHANGED <<mutex, call, last, http>>
    /\ UNCHANGED <<now, locks, lockExpires, watch, race>>
    /\ UNCHANGED fsVars

\* unlock: the two deletes, return nil
\* (variant first: only the token deleted)
unlockDeleteToken(c) ==
    /\ pc[c] = "delete"
    /\ call[c].op = "unlock"
    /\ locks' = Delete(locks, call[c].page)
    /\ lockExpires' = lockExpires
    /\ Return(c, "ok")
    /\ UNCHANGED <<now, watch, race>>
    /\ UNCHANGED fsVars

unlockDelete(c) ==
    /\ pc[c] = "delete"
    /\ call[c].op = "unlock"
    /\ locks' = Delete(locks, call[c].page)
    /\ lockExpires' = Delete(lockExpires, call[c].page)
    /\ Return(c, "ok")
    /\ UNCHANGED <<now, watch, race>>
    /\ UNCHANGED fsVars

\* ------------------------------------------------- the expiry goroutine
\* mutex.Lock() at the top of the loop
WatchLock(w) ==
    /\ w.pc = "lock"
    /\ mutex = Unlocked
    /\ mutex' = Locked
    /\ watch' = Step(watch, w, [w EXCEPT !.pc = "check"])
    /\ UNCHANGED <<now, locks, lockExpires, pc, call, last, race>>
    /\ UNCHANGED <<fsVars, http>>

\* expires.Before(time.Now())
\* (variant first: not after now, instead of before now)
ExpiredOrDue(expires, t) == ~Before(t, expires)

Expired(expires, t) == Before(expires, t)

\* history of a goroutine's delete: the token it removes, if there is an entry
Reap(p) == IF Has(locks, p) THEN [op |-> "expire", out |-> locks[p]] ELSE last

\* expires = lockExpires[page]; then delete, Unlock and return, or Unlock
\* (variants first: one that returns instead of sleeping when the entry is not
\* due, one that returns without Unlock after the delete)
WatchCheckOnce(w) ==
    /\ w.pc = "check"
    /\ LET expires == ExpiresOf(lockExpires, w.page)
       IN IF Expired(expires, now)
          THEN /\ locks' = Delete(locks, w.page)
               /\ lockExpires' = Delete(lockExpires, w.page)
               /\ last' = Reap(w.page)
               /\ watch' = Exit(watch, w)
          ELSE /\ watch' = Exit(watch, w)
               /\ UNCHANGED <<locks, lockExpires, last>>
    /\ mutex' = Unlocked
    /\ UNCHANGED <<now, pc, call, race>>
    /\ UNCHANGED <<fsVars, http>>

WatchCheckKeepsMutex(w) ==
    /\ w.pc = "check"
    /\ LET expires == ExpiresOf(lockExpires, w.page)
       IN IF Expired(expires, now)
          THEN /\ locks' = Delete(locks, w.page)
               /\ lockExpires' = Delete(lockExpires, w.page)
               /\ last' = Reap(w.page)
               /\ watch' = Exit(watch, w)
               /\ mutex' = mutex
          ELSE /\ watch' = Step(watch, w, [w EXCEPT !.pc = "sleep", !.expires = expires])
               /\ mutex' = Unlocked
               /\ UNCHANGED <<locks, lockExpires, last>>
    /\ UNCHANGED <<now, pc, call, race>>
    /\ UNCHANGED <<fsVars, http>>

WatchCheck(w) ==
    /\ w.pc = "check"
    /\ LET expires == ExpiresOf(lockExpires, w.page)
       IN IF Expired(expires, now)
          THEN /\ locks' = Delete(locks, w.page)
               /\ lockExpires' = Delete(lockExpires, w.page)
               /\ last' = Reap(w.page)
               /\ watch' = Exit(watch, w)
          ELSE /\ watch' = Step(watch, w, [w EXCEPT !.pc = "sleep", !.expires = expires])
               /\ UNCHANGED <<locks, lockExpires, last>>
    /\ mutex' = Unlocked
    /\ UNCHANGED <<now, pc, call, race>>
    /\ UNCHANGED <<fsVars, http>>

\* time.Sleep(expires.Sub(time.Now())) returns: not before expires
WatchWake(w) ==
    /\ w.pc = "sleep"
    /\ now >= w.expires
    /\ watch' = Step(watch, w, [w EXCEPT !.pc = "lock", !.expires = ZeroTime])
    /\ UNCHANGED <<now, mutex, locks, lockExpires, pc, call, last, race>>
    /\ UNCHANGED <<fsVars, http>>

\* ====================================================== the file lookup
\* Strings are sequences of characters.
MD == <<".", "m", "d">>
HTML == <<".", "h", "t", "m", "l">>
INDEX == <<"i", "n", "d", "e", "x">>
Dot == <<".">>
DotDot == <<".", ".">>
Sep == <<"/">>

\* strings.HasPrefix
HasPrefix(s, prefix) ==
    Len(s) >= Len(prefix) /\ SubSeq(s, 1, Len(prefix)) = prefix

\* the elements of a path between its slashes, and back
SplitStep(c, rest) ==
    IF c = "/"
    THEN << <<>> >> \o rest
    ELSE << <<c>> \o Head(rest) >> \o Tail(rest)

RECURSIVE Split(_)
Split(s) ==
    IF s = <<>> THEN << <<>> >>
    ELSE SplitStep(Head(s), Split(Tail(s)))

RECURSIVE Unsplit(_)
Unsplit(segs) ==
    IF segs = <<>> THEN <<>>
    ELSE IF Len(segs) = 1 THEN segs[1]
    ELSE segs[1] \o Sep \o Unsplit(Tail(segs))

\* path.Clean, one element at a time: empty and "." elements are dropped, ".."
\* removes the element before it, is dropped at the root, and is kept at the
\* front of a path that is not rooted
CleanStep(acc, seg, rooted) ==
    IF seg = <<>> \/ seg = Dot THEN acc
    ELSE IF seg = DotDot
         THEN IF acc # <<>> /\ acc[Len(acc)] # DotDot
              THEN SubSeq(acc, 1, Len(acc) - 1)
              ELSE IF rooted THEN acc ELSE Append(acc, DotDot)
         ELSE Append(acc, seg)

RECURSIVE CleanSegs(_, _, _)
CleanSegs(segs, acc, rooted) ==
    IF segs = <<>> THEN acc
    ELSE CleanSegs(Tail(segs), CleanStep(acc, Head(segs), rooted), rooted)

\* the cleaned elements written out: "/" in front of a rooted path, "." for an
\* empty one
CleanOut(acc, rooted) ==
    IF rooted THEN Sep \o Unsplit(acc)
    ELSE IF acc = <<>> THEN Dot ELSE Unsplit(acc)

Clean(p) ==
    IF p = <<>> THEN Dot
    ELSE CleanOut(CleanSegs(Split(p), <<>>, p[1] = "/"), p[1] = "/")

\* path.Join: empty elements are ignored, the rest joined by "/" and cleaned
JoinStep(e, rest) ==
    IF e = <<>> THEN rest
    ELSE IF rest = <<>> THEN e
    ELSE e \o Sep \o rest

RECURSIVE JoinRaw(_)
JoinRaw(elems) ==
    IF elems = <<>> THEN <<>>
    ELSE JoinStep(Head(elems), JoinRaw(Tail(elems)))

CleanJoined(p) == IF p = <<>> THEN <<>> ELSE Clean(p)
Join(elems) == CleanJoined(JoinRaw(elems))

\* path.Dir: all but the last element, cleaned
RECURSIVE LastSlash(_)
LastSlash(s) ==
    IF s = <<>> THEN 0
    ELSE IF s[Len(s)] = "/" THEN Len(s)
    ELSE LastSlash(SubSeq(s, 1, Len(s) - 1))
Dir(p) == Clean(SubSeq(p, 1, LastSlash(p)))

\* filepath.Abs(os.Args[1]): the root directory
Base == <<"/", "r">>

\* read: the sandbox test on the joined path
\* (variant: the prefix compared without its final slash)
InsideNoSlash(file) == HasPrefix(file, Base)

Inside(file) == HasPrefix(file, Base \o Sep)

\* read(name): the error, the content, and the paths given to ioutil.ReadFile
NoData == <<>>
readFile(fs, file) ==
    IF ~Inside(file)
    THEN [err |-> "directory traversal attack", data |-> NoData, opened |-> <<>>]
    ELSE IF file \in fs
         THEN [err |-> "nil", data |-> file, opened |-> <<file>>]
         ELSE [err |-> "no such file", data |-> NoData, opened |-> <<file>>]

read(fs, name) == readFile(fs, Join(<<Base, name>>))

\* the order in which readExt tries the extensions
\* (variant: .html before .md)
ExtsHtmlFirst == <<HTML, MD>>

Exts == <<MD, HTML>>

\* readExt(name): name + ext for each ext in turn, then name itself
After(opened, r) == [r EXCEPT !.opened = opened \o @]

RECURSIVE readExtFrom(_, _, _, _)
\* if err == nil { return data, nil }, else the next extension
readExtTry(fs, name, exts, opened, r) ==
    IF r.err = "nil"
    THEN After(opened, r)
    ELSE readExtFrom(fs, name, Tail(exts), opened \o r.opened)

readExtFrom(fs, name, exts, opened) ==
    IF exts = <<>>
    THEN After(opened, read(fs, name))
    ELSE readExtTry(fs, name, exts, opened, read(fs, name \o Head(exts)))
readExt(fs, name) == readExtFrom(fs, name, Exts, <<>>)

\* ------------------------------------------------------- the link annotator
\* url.Parse(attr.Val) is modelled by its result: an error, or Host and Path
BadUrl == [err |-> TRUE, host |-> <<>>, path |-> <<>>]
Url(host, path) == [err |-> FALSE, host |-> host, path |-> path]
NoUrl == Url(<<>>, <<>>)
Href(u) == [key |-> "href", url |-> u, class |-> <<>>]
\* a class attribute: its value as the sequence of its space-separated tokens
Class(tokens) == [key |-> "class", url |-> NoUrl, class |-> tokens]

\* the body of the loop over n.Attr for one href attribute, for the page at
\* urlPath: what it sets, whether it breaks, and the paths it tried.
\* (variant first: the host tested only after the files)
Verdict(broken, external, stop, opened) ==
    [broken |-> broken, external |-> external, stop |-> stop, opened |-> opened]

\* errAsFile != nil && errAsFolder != nil
Missing(asFile, asFolder) == asFile.err # "nil" /\ asFolder.err # "nil"

CheckHrefFilesFirst(fs, urlPath, u) ==
    IF u.err
    THEN Verdict(TRUE, FALSE, TRUE, <<>>)
    ELSE IF Missing(readExt(fs, Join(<<Dir(urlPath), u.path>>)),
                    readExt(fs, Join(<<Dir(urlPath), u.path, INDEX>>)))
         THEN Verdict(TRUE, FALSE, TRUE, <<>>)
         ELSE IF Len(u.host) > 0
              THEN Verdict(FALSE, TRUE, TRUE, <<>>)
              ELSE Verdict(FALSE, FALSE, FALSE, <<>>)

CheckLocal(asFile, asFolder) ==
    Verdict(Missing(asFile, asFolder), FALSE, Missing(asFile, asFolder),
            asFile.opened \o asFolder.opened)

CheckHref(fs, urlPath, u) ==
    IF u.err
    THEN Verdict(TRUE, FALSE, TRUE, <<>>)
    ELSE IF Len(u.host) > 0
         THEN Verdict(FALSE, TRUE, TRUE, <<>>)
         ELSE CheckLocal(readExt(fs, Join(<<Dir(urlPath), u.path>>)),
                         readExt(fs, Join(<<Dir(urlPath), u.path, INDEX>>)))

\* for _, attr := range n.Attr: href attributes are checked in order until one
\* of them breaks out of the loop
RECURSIVE ScanAttrs(_, _, _, _)
\* break, or the next attribute
ScanHref(fs, urlPath, attrs, opened, r) ==
    IF r.stop
    THEN [broken |-> r.broken, external |-> r.external, opened |-> opened \o r.opened]
    ELSE ScanAttrs(fs, urlPath, Tail(attrs), opened \o r.opened)

ScanAttrs(fs, urlPath, attrs, opened) ==
    IF attrs = <<>>
    THEN [broken |-> FALSE, external |-> FALSE, opened |-> opened]
    ELSE ScanHref(fs, urlPath, attrs, opened,
                  IF Head(attrs).key = "href"
                  THEN CheckHref(fs, urlPath, Head(attrs).url)
                  ELSE Verdict(FALSE, FALSE, FALSE, <<>>))

\* the class token goes to the first class attribute, or to a new one at the end
RECURSIVE AddToFirstClass(_, _)
AddToFirstClass(attrs, token) ==
    IF attrs = <<>> THEN <<>>
    ELSE IF Head(attrs).key = "class"
         THEN <<[Head(attrs) EXCEPT !.class = @ \o <<token>>]>> \o Tail(attrs)
         ELSE <<Head(attrs)>> \o AddToFirstClass(Tail(attrs), token)
AddClass(attrs, token) ==
    IF \E i \in 1..Len(attrs) : attrs[i].key = "class"
    THEN AddToFirstClass(attrs, token)
    ELSE Append(attrs, Class(<<token>>))

\* f(n) for one <a> element with attributes attrs, on the page at urlPath
\* if broken { ... "broken-link" }; if external { ... "external-link" }
WithClass(attrs, set, token) == IF set THEN AddClass(attrs, token) ELSE attrs
Classes(attrs, r) ==
    [attrs |-> WithClass(WithClass(attrs, r.broken, "broken-link"),
                         r.external, "external-link"),
     opened |-> r.opened]

annotate(fs, urlPath, attrs) == Classes(attrs, ScanAttrs(fs, urlPath, attrs, <<>>))

\* ------------------------------------------------- inputs of the file lookup
\* names: up to MaxSegs elements between slashes, among them empty ones, "."
\* and "..", the root's own name and names of files and directories
Elements == {<<>>, Dot, DotDot, <<"a">>, <<"d">>, <<"r">>}
Names == {Unsplit(segs) : segs \in UNION {[1..n -> Elements] : n \in 1..MaxSegs}}

\* files that may exist below the root, and one outside it that always does
F_a_md == Base \o <<"/", "a">> \o MD
F_a_html == Base \o <<"/", "a">> \o HTML
F_a == Base \o <<"/", "a">>
F_d_a_md == Base \o <<"/", "d", "/", "a">> \o MD
F_d_index_md == Base \o <<"/", "d", "/">> \o INDEX \o MD
F_a_index_html == Base \o <<"/", "a", "/">> \o INDEX \o HTML
F_index_md == Base \o Sep \o INDEX \o MD
Outside == <<"/", "a">>
Universe == {F_a_md, F_a_html, F_a, F_d_a_md, F_d_index_md, F_a_index_html}
\* roots that have an index page of their own
RootIndexed == {{F_index_md}, {F_index_md, F_a_md}}
\* /r/a is a file or a directory, not both
FileSystems ==
    {fs \cup {Outside} :
       fs \in {x \in SUBSET Universe : ~(F_a \in x /\ F_a_index_html \in x)} \cup RootIndexed}

\* r.URL.Path of the page being rendered
UrlPaths == {<<"/", "a">>, <<"/", "d", "/", "a">>, <<"/", "d", "/">>}
\* the attributes an <a> element may carry
HrefValues ==
    {BadUrl, Url(<<"h">>, <<"/", "a">>)}
    \cup {Url(<<>>, p) : p \in {<<"a">>, <<"/", "a">>, <<".", ".", "/", "a">>, <<"d", "/">>}}
AttrValues == {Href(u) : u \in HrefValues} \cup {Class(<<"c">>)}
Anchors == UNION {[1..n -> AttrValues] : n \in 1..MaxAttrs}

NoReq == [op |-> "none", name |-> <<>>, attrs |-> <<>>]
NoOut == [err |-> "none", data |-> NoData, opened |-> <<>>, attrs |-> <<>>]

FsIdle ==
    /\ files = {Outside}
    /\ req = NoReq
    /\ out = NoOut

\* the calls handle makes: read(name), readExt(name), and f(n) for an <a>
\* element with attributes attrs on the page at r.URL.Path = name
Requests ==
    {[op |-> o, name |-> n, attrs |-> <<>>] : o \in {"read", "readExt"}, n \in Names}
    \cup {[op |-> "annotate", name |-> u, attrs |-> a] : u \in UrlPaths, a \in Anchors}

FsInit ==
    /\ files \in FileSystems
    /\ req \in Requests
    /\ out = NoOut

\* what a call of read or readExt returns, with the paths it gave to ReadFile
Returned(r) == [err |-> r.err, data |-> r.data, opened |-> r.opened, attrs |-> <<>>]

\* handle calls read(name)
Read ==
    /\ req.op = "read"
    /\ out = NoOut
    /\ out' = Returned(read(files, req.name))
    /\ UNCHANGED <<files, req, lockVars, http>>

\* handle calls readExt(name)
ReadExt ==
    /\ req.op = "readExt"
    /\ out = NoOut
    /\ out' = Returned(readExt(files, req.name))
    /\ UNCHANGED <<files, req, lockVars, http>>

\* what a run of f(n) leaves: the element's attributes and the paths it tried
Annotated(r) == [err |-> "nil", data |-> NoData, opened |-> r.opened, attrs |-> r.attrs]

\* handle annotates one <a> element of the page at r.URL.Path
Annotate ==
    /\ req.op = "annotate"
    /\ out = NoOut
    /\ out' = Annotated(annotate(files, req.name, req.attrs))
    /\ UNCHANGED <<files, req, lockVars, http>>

\* f(n) once more, on the element as the first run left it
Reannotate ==
    /\ req.op = "annotate"
    /\ out # NoOut
    /\ req' = [req EXCEPT !.op = "reannotate", !.attrs = out.attrs]
    /\ out' = Annotated(annotate(files, req.name, out.attrs))
    /\ UNCHANGED <<files, lockVars, http>>

FsNext ==
    \/ Read
    \/ ReadExt
    \/ Annotate
    \/ Reannotate

\* ====================================================== the request handler
\* strings.HasSuffix, strings.TrimSuffix, strings.TrimPrefix
HasSuffix(s, suffix) ==
    Len(s) >= Len(suffix) /\ SubSeq(s, Len(s) - Len(suffix) + 1, Len(s)) = suffix
TrimSuffix(s, suffix) ==
    IF HasSuffix(s, suffix) THEN SubSeq(s, 1, Len(s) - Len(suffix)) ELSE s
TrimPrefix(s, prefix) ==
    IF HasPrefix(s, prefix) THEN SubSeq(s, Len(prefix) + 1, Len(s)) ELSE s

\* strings.TrimSpace
WhiteSpace == {" ", "\t", "\n", "\r"}
RECURSIVE TrimLeft(_)
TrimLeft(s) == IF s # <<>> /\ Head(s) \in WhiteSpace THEN TrimLeft(Tail(s)) ELSE s
RECURSIVE TrimRight(_)
TrimRight(s) ==
    IF s # <<>> /\ s[Len(s)] \in WhiteSpace
    THEN TrimRight(SubSeq(s, 1, Len(s) - 1))
    ELSE s
TrimSpace(s) == TrimRight(TrimLeft(s))

\* path.Ext: from the last dot of the last element on
RECURSIVE ExtFrom(_, _)
ExtFrom(p, i) ==
    IF i = 0 THEN <<>>
    ELSE IF p[i] = "/" THEN <<>>
    ELSE IF p[i] = "." THEN SubSeq(p, i, Len(p))
    ELSE ExtFrom(p, i - 1)
Ext(p) == ExtFrom(p, Len(p))

\* path.Base: the last element; "." for the empty path, "/" for slashes only
LastElement(segs) == IF segs = <<>> THEN Sep ELSE segs[Len(segs)]
PathBase(p) ==
    IF p = <<>> THEN Dot
    ELSE LastElement(SelectSeq(Split(p), LAMBDA e : e # <<>>))

\* the paths handle treats specially, and the name of the secret's file
AuthPrefix == <<"/", ".", "a", "u", "t", "h", "/">>
LockSuffix == <<"/", ".", "l", "o", "c", "k">>
AuthName == <<".", "a", "u", "t", "h">>

\* the files of a served root: the secret, a page, a script
F_auth == Base \o Sep \o AuthName
F_a_js == Base \o <<"/", "a", ".", "j", "s">>
\* the secret, and the bytes of a file: .auth holds the secret and a newline,
\* any other file's content is identified with its path
Secret == <<"s">>
Content(file) == IF file = F_auth THEN Secret \o <<"\n">> ELSE file

\* os.Stat: a regular file, a directory (it has files below it), or an error
IsDir(fs, p) == \E f \in fs : HasPrefix(f, IF p = Sep THEN Sep ELSE p \o Sep)
Stat(fs, p) == IF p \in fs THEN "file" ELSE IF IsDir(fs, p) THEN "dir" ELSE "error"

\* set auth cookie
SetAuth(r) ==
    Response(303, "", DotDot, Cookie(TrimPrefix(r.path, AuthPrefix)), "", <<>>)

\* check auth cookie: auth is what read(".auth") returned
\* (variant first: any cookie is taken)
DeniedIfNoCookie(auth, r) == auth.err = "nil" /\ ~r.cookie.set

DeniedBy(auth, r) ==
    /\ auth.err = "nil"
    /\ (~r.cookie.set \/ r.cookie.value # TrimSpace(Content(auth.data)))
Denied(fs, r) == DeniedBy(read(fs, AuthName), r)
Forbidden == Response(403, "", <<>>, NoCookie, "no", <<>>)

\* handle locks: the page named by the path, and the answers given before
\* lockOrExtend is called; Calls stands for the call, whose return is answered
\* by Reply
Page(r) == TrimSuffix(r.path, LockSuffix)
Calls == NoResponse
\* (variant first: the body is tested before the page)
LockFoundBodyFirst(r, found) ==
    IF r.body = ""
    THEN Response(400, "", <<>>, NoCookie, "lock can't be empty", <<>>)
    ELSE IF found.err # "nil"
    THEN Response(404, "", <<>>, NoCookie, found.err, <<>>)
    ELSE Calls

LockFound(r, found) ==
    IF found.err # "nil"
    THEN Response(404, "", <<>>, NoCookie, found.err, <<>>)
    ELSE IF r.body = ""
    THEN Response(400, "", <<>>, NoCookie, "lock can't be empty", <<>>)
    ELSE Calls
LockAnswer(fs, r) ==
    IF r.method # "POST"
    THEN Response(405, "POST", <<>>, NoCookie, "only POSTing locks is allowed", <<>>)
    ELSE LockFound(r, readExt(fs, Page(r)))

\* normalize slashes: the Location of the redirect, or none
Location(kind, p) ==
    IF kind = "dir" /\ ~HasSuffix(p, Sep) THEN PathBase(p) \o Sep
    ELSE IF kind = "file" /\ HasSuffix(p, Sep) THEN Join(<<DotDot, PathBase(p), Sep>>)
    ELSE <<>>
\* the body written for a file read: the error, or what is made of the file's
\* content (the asset minified, the page rendered), named here by the content
Body(f) ==
    IF f.err # "nil"
    THEN Response(200, "", <<>>, NoCookie, f.err, <<>>)
    ELSE Response(200, "", <<>>, NoCookie, "", Content(f.data))
\* static, or read file or index
Served(fs, p) ==
    IF Ext(p) \notin {<<>>, MD, HTML} THEN Body(read(fs, p))
    ELSE IF HasSuffix(p, Sep) THEN Body(readExt(fs, Join(<<p, INDEX>>)))
    ELSE Body(readExt(fs, p))
Redirected(fs, p, location) ==
    IF location # <<>>
    THEN Response(303, "", location, NoCookie, "", <<>>)
    ELSE Served(fs, p)
PageAnswer(fs, r) ==
    IF r.method \notin {"GET", "POST"}
    THEN Response(405, "GET, POST", <<>>, NoCookie,
                  "only GETting or POSTing pages is allowed", <<>>)
    ELSE Redirected(fs, r.path, Location(Stat(fs, Join(<<Base, r.path>>)), r.path))

\* handle, up to its return or its call of lockOrExtend
Answer(fs, r) ==
    IF HasPrefix(r.path, AuthPrefix) THEN SetAuth(r)
    ELSE IF Denied(fs, r) THEN Forbidden
    ELSE IF HasSuffix(r.path, LockSuffix) THEN LockAnswer(fs, r)
    ELSE PageAnswer(fs, r)

\* the requests made: of locks, with every method and body, with and without
\* the secret; of the other paths, with every cookie
Methods == {"GET", "POST", "PUT"}
LockPaths ==
    {AuthPrefix \o Secret \o LockSuffix,
     <<"/", "a">> \o LockSuffix,
     <<"/", "a">> \o MD \o LockSuffix,
     <<"/", "b">> \o LockSuffix}
Cookies == {NoCookie, Cookie(Secret), Cookie(Secret \o <<"\n">>)}
Bodies == {""} \cup Tokens
LockRequests ==
    {r \in [method : {"GET", "POST"}, path : LockPaths,
            cookie : {NoCookie, Cookie(Secret)}, body : Bodies] :
        r.body # "" => r.method = "POST"}
PageRequests ==
    [method : {"GET"},
     path : {AuthPrefix \o Secret, <<"/", "a">>, <<"/", "a", ".", "j", "s">>, <<"/", "d">>},
     cookie : Cookies, body : {""}]
    \cup [method : {"POST", "PUT"}, path : {<<"/", "a">>}, cookie : Cookies, body : {""}]
HttpRequests == LockRequests \cup PageRequests
\* the roots served: with and without the secret
HttpFileSystems == {{F_a_md, F_a_js, F_d_index_md, Outside} \cup x : x \in SUBSET {F_auth}}

\* the connections served: requests come one after the other, beside the
\* watchers; callers of lockOrExtend in parallel are the matter of Spec
Connections == {"c1"}

\* one request handled by c: answered at once, or lockOrExtend called
Serve(c, r, a) ==
    IF a = Calls
    THEN /\ BagCardinality(watch) + Cardinality(PendingLocks) < MaxWatchers
         /\ call' = [call EXCEPT ![c] = [op |-> "lockOrExtend", page |-> Page(r),
                                         lock |-> r.body, req |-> r]]
         /\ pc' = [pc EXCEPT ![c] = "lock"]
         /\ race' = Racing(c, "lockOrExtend", Page(r), r.body)
         /\ last' = Nothing
         /\ UNCHANGED http
    ELSE /\ http' = [req |-> r, resp |-> a]
         /\ UNCHANGED <<pc, call, race, last>>
Handle(c) ==
    /\ pc[c] = "idle"
    /\ \E r \in HttpRequests : Serve(c, r, Answer(files, r))
    /\ UNCHANGED <<now, mutex, locks, lockExpires, watch, fsVars>>

HttpInit ==
    /\ LockInit
    /\ files \in HttpFileSystems
    /\ req = NoReq
    /\ out = NoOut

HttpNext ==
    \/ \E c \in Connections : Handle(c)
    \/ \E c \in Callers : Enter(c)
    \/ \E c \in Callers : lockOrExtendCheck(c)
    \/ \E c \in Callers : lockOrExtendSet(c)
    \/ \E w \in Running : WatchLock(w)
    \/ \E w \in Running : WatchCheck(w)

vars == <<lockVars, fsVars, http>>

Init == LockInit /\ FsIdle

Next ==
    \/ Tick
    \/ \E c \in Callers : Call(c)
    \/ \E c \in Callers : Enter(c)
    \/ \E c \in Callers : lockOrExtendCheck(c)
    \/ \E c \in Callers : lockOrExtendSet(c)
    \/ \E c \in Callers : unlockCheck(c)
    \/ \E c \in Callers : unlockDelete(c)
    \/ \E w \in Running : WatchLock(w)
    \/ \E w \in Running : WatchCheck(w)
    \/ \E w \in Running : WatchWake(w)

Spec == Init /\ [][Next]_vars

\* ---------------------------------------------------------------- fairness
\* The clock advances; a goroutine that can run does run; sync.Mutex hands the
\* mutex to a goroutine that keeps waiting for it (starvation mode), so a
\* waiter is not passed over forever.  Callers are free never to call.
\* the steps of a call between mutex.Lock() and its return
InCall(c) ==
    \/ lockOrExtendCheck(c)
    \/ lockOrExtendSet(c)
    \/ unlockCheck(c)
    \/ unlockDelete(c)

FairOn(pages) ==
    /\ WF_vars(Tick)
    /\ \A c \in Callers :
        /\ SF_vars(Enter(c))
        /\ WF_vars(InCall(c))
    /\ \A p \in pages :
        /\ SF_vars(\E w \in Running : w.page = p /\ WatchLock(w))
        /\ WF_vars(\E w \in Running : w.page = p /\ WatchCheck(w))
        /\ WF_vars(\E w \in Running : w.page = p /\ WatchWake(w))

\* the progress properties are checked with every call made on one page
LivePages == {"/a"}
LiveCall(c) == CallOn(c, LivePages)

LiveNext ==
    \/ Tick
    \/ \E c \in Callers : LiveCall(c)
    \/ \E c \in Callers : Enter(c)
    \/ \E c \in Callers : lockOrExtendCheck(c)
    \/ \E c \in Callers : lockOrExtendSet(c)
    \/ \E c \in Callers : unlockCheck(c)
    \/ \E c \in Callers : unlockDelete(c)
    \/ \E w \in Running : WatchLock(w)
    \/ \E w \in Running : WatchCheck(w)
    \/ \E w \in Running : WatchWake(w)

LiveSpec == Init /\ [][LiveNext]_vars /\ FairOn(LivePages)

\* the file lookup and the annotator, on every file system and input
FsStart == LockInit /\ FsInit
FsSpec == FsStart /\ [][FsNext]_vars

\* the request handler with the lock table, at one instant of the clock
HttpSpec == HttpInit /\ [][HttpNext]_vars

TypeOK ==
    /\ now \in 0..MaxTime
    /\ mutex \in {Unlocked, Locked}
    /\ DOMAIN locks \subseteq Pages
    /\ DOMAIN lockExpires \subseteq Pages
    /\ BagCardinality(watch) <= MaxWatchers

\* ----------------------------------------------------- steps, seen from outside
\* caller c's call of o returns in this step
Returns(c, o) == pc[c] # "idle" /\ call[c].op = o /\ pc'[c] = "idle"
\* no caller moves in this step and the table loses page p: a goroutine's delete
ReapedBy(p) == pc' = pc /\ Has(locks, p) /\ ~Has(locks', p)
Other(c) == CHOOSE d \in Callers : d # c
SamePage(m, n, p) == Has(m, p) = Has(n, p) /\ (Has(m, p) => m[p] = n[p])

\* C1: whenever lockOrExtend(p, B) executes while p holds an entry with another
\* token A, it returns "already locked" and the lock table is left as it was
\* (p still locked by A, same expiry, every other page untouched), and no
\* expiry goroutine is started.
C1_ConflictChangesNothing ==
    [][\A c \in Callers :
         (/\ pc[c] = "check"
          /\ pc'[c] # "check"
          /\ call[c].op = "lockOrExtend"
          /\ Has(locks, call[c].page)
          /\ locks[call[c].page] # call[c].lock)
         => /\ pc'[c] = "idle"
            /\ last' = [op |-> "lockOrExtend", out |-> "already locked"]
            /\ locks' = locks
            /\ lockExpires' = lockExpires
            /\ watch' = watch]_vars

\* a refused lockOrExtend has returned and the entry that refused it is there
C1_Witness ==
    /\ last = [op |-> "lockOrExtend", out |-> "already locked"]
    /\ \E p \in Pages : Has(locks, p) /\ lockExpires[p] > now

\* C2 as claimed: of two lockOrExtend calls issued concurrently on one unlocked
\* page with different tokens, the first to execute succeeds and the second is
\* refused, under every interleaving, and the table then holds the winner's token.
C2_ExactlyOneWins ==
    [][\A c \in Callers :
         (race /\ Returns(c, "lockOrExtend"))
         => IF pc[Other(c)] = "lock"
            THEN /\ last'.out = "ok"
                 /\ Has(locks', call[c].page)
                 /\ locks'[call[c].page] = call[c].lock
            ELSE /\ last'.out = "already locked"
                 /\ Has(locks', call[c].page)
                 /\ locks'[call[c].page] # call[c].lock]_vars

\* C2 amended: the two calls execute one after the other; the first succeeds;
\* the second is refused, and the table keeps the first's token, exactly when
\* the first's entry is still in the table as the second executes; when that
\* entry is gone by then (its expiry goroutine removed it) the second succeeds
\* as well and the table holds the second's token.
C2_Serialized ==
    [][\A c \in Callers :
         (race /\ Returns(c, "lockOrExtend"))
         => /\ pc[Other(c)] \in {"lock", "idle"}
            /\ IF pc[Other(c)] = "idle" /\ Has(locks, call[c].page)
               THEN /\ last'.out = "already locked"
                    /\ locks' = locks
                    /\ locks[call[c].page] # call[c].lock
               ELSE /\ last'.out = "ok"
                    /\ Has(locks', call[c].page)
                    /\ locks'[call[c].page] = call[c].lock]_vars

\* both calls of a concurrent pair have returned, the second one refused
C2_Witness ==
    /\ race
    /\ \A c \in Callers : pc[c] = "idle"
    /\ last = [op |-> "lockOrExtend", out |-> "already locked"]
    /\ \E p \in Pages : Has(locks, p)

\* C3: a lockOrExtend(p, A) on a page locked by A sets the expiry to now + 60 s,
\* and whenever an expiry goroutine removes p's entry, the expiry stored for p
\* at that moment is earlier than now.
C3_NoEarlyRemoval ==
    [][/\ \A c \in Callers :
            (/\ pc[c] = "set"
             /\ pc'[c] = "idle"
             /\ Has(locks, call[c].page)
             /\ locks[call[c].page] = call[c].lock)
            => /\ lockExpires'[call[c].page] = now + Minute
               /\ locks'[call[c].page] = call[c].lock
       /\ \A p \in Pages :
            ReapedBy(p) => lockExpires[p] < now]_vars

\* a goroutine sleeps towards a deadline that has passed, while the entry it
\* watches has been extended and is not due yet
C3_Witness ==
    \E w \in Running :
        /\ w.pc = "sleep"
        /\ w.expires <= now
        /\ Has(locks, w.page)
        /\ lockExpires[w.page] > w.expires
        /\ lockExpires[w.page] > now

\* C5: unlock(p, t) on an unlocked page returns nil and changes nothing; on a
\* page locked with another token it returns "locked by someone else" and
\* changes nothing; on a page locked with t it returns nil and removes p's
\* entry; no other page changes; and a lockOrExtend that finds p without an
\* entry succeeds whatever its token is.
C5_UnlockOutcomes ==
    [][/\ \A c \in Callers :
            Returns(c, "unlock")
            => LET p == call[c].page
               IN /\ \A q \in Pages \ {p} :
                        SamePage(locks, locks', q) /\ SamePage(lockExpires, lockExpires', q)
                  /\ IF Has(locks, p) /\ locks[p] # call[c].lock
                     THEN /\ last' = [op |-> "unlock", out |-> "locked by someone else"]
                          /\ locks' = locks
                          /\ lockExpires' = lockExpires
                     ELSE /\ last' = [op |-> "unlock", out |-> "ok"]
                          /\ ~Has(locks', p)
                          /\ ~Has(lockExpires', p)
       /\ \A c \in Callers :
            (/\ call[c].op = "unlock"
             /\ pc[c] = "check"
             /\ pc'[c] = "delete")
            => ~(Has(locks, call[c].page) /\ locks[call[c].page] # call[c].lock)
       /\ \A c \in Callers :
            (/\ call[c].op = "lockOrExtend"
             /\ pc[c] = "check"
             /\ pc'[c] # "check"
             /\ ~Has(locks, call[c].page))
            => pc'[c] = "set"
       /\ \A c \in Callers :
            (pc[c] = "set" /\ pc'[c] # "set")
            => /\ last' = [op |-> "lockOrExtend", out |-> "ok"]
               /\ locks'[call[c].page] = call[c].lock]_vars

\* an unlock with the wrong token has been refused, the entry is still there
C5_Witness ==
    /\ last = [op |-> "unlock", out |-> "locked by someone else"]
    /\ \E p \in Pages : Has(locks, p) /\ Has(lockExpires, p)
    /\ \A c \in Callers : pc[c] = "idle"

\* the clock can still pass time e
WithinHorizon(e) == \E d \in TickSteps : e + d <= MaxTime
\* the instants the clock can show, and the expiries written at them that the
\* clock can pass
Instants == {t \in 0..MaxTime : \E d \in TickSteps : t % d = 0}
Deadlines == {e \in {t + Minute : t \in Instants} : WithinHorizon(e)}

\* C4: under fair scheduling of the goroutines and an advancing clock, an
\* entry of page p with expiry e is eventually removed or lockOrExtend succeeds
\* on p again (writing a later expiry): an entry that is no longer extended is
\* eventually removed without any caller's action.  And a lockOrExtend that
\* finds the page without an entry succeeds whatever its token is.
C4_EventuallyExpires ==
    /\ \A p \in LivePages : \A e \in Deadlines :
         (Has(lockExpires, p) /\ lockExpires[p] = e)
         ~> (~Has(locks, p) \/ (Has(lockExpires, p) /\ lockExpires[p] > e))
    /\ [][\A c \in Callers :
            (/\ call[c].op = "lockOrExtend"
             /\ pc[c] = "check"
             /\ pc'[c] # "check"
             /\ ~Has(locks, call[c].page))
            => pc'[c] = "set"]_vars

\* an expiry goroutine has removed A's entry, and a lockOrExtend with token B
\* has found the page unlocked and is about to write its own entry
C4_Witness ==
    /\ last = [op |-> "expire", out |-> "A"]
    /\ now > Minute
    /\ \E c \in Callers :
        /\ pc[c] = "set"
        /\ call[c].lock = "B"
        /\ ~Has(locks, call[c].page)

\* C6: under fair scheduling the mutex, once locked, is unlocked again, and
\* every call of lockOrExtend or unlock that has been made returns.
C6_NeverBlocksForever ==
    /\ (mutex = Locked) ~> (mutex = Unlocked)
    /\ \A c \in Callers : (pc[c] # "idle") ~> (pc[c] = "idle")

\* a call waits at mutex.Lock() while an expiry goroutine holds the mutex
C6_Witness ==
    /\ mutex = Locked
    /\ \E w \in Running : w.pc = "check"
    /\ \E c \in Callers : pc[c] = "lock"

\* ------------------------------------------------ the file lookup, from outside
\* file lies strictly below the root: its elements are the root's followed by
\* at least one more, none of them empty, "." or ".."
BelowElements(b, f) ==
    /\ Len(f) > Len(b)
    /\ SubSeq(f, 1, Len(b)) = b
    /\ \A k \in (Len(b) + 1)..Len(f) : f[k] \notin {<<>>, Dot, DotDot}
StrictlyBelowRoot(file) == BelowElements(Split(Base), Split(file))
Done == out # NoOut
\* the class tokens of an element
ClassTokens(attrs) ==
    UNION {{attrs[i].class[k] : k \in 1..Len(attrs[i].class)} :
             i \in {j \in 1..Len(attrs) : attrs[j].key = "class"}}
\* the href of an element: of attributes of one name the first counts
HasHref(attrs) == \E i \in 1..Len(attrs) : attrs[i].key = "href"
FirstHref(attrs) ==
    attrs[CHOOSE i \in 1..Len(attrs) :
            /\ attrs[i].key = "href"
            /\ \A j \in 1..(i - 1) : attrs[j].key # "href"].url

\* C7: for every name, read(name) either returns the traversal error and gives
\* nothing to ReadFile, or gives it exactly one path, which lies strictly below
\* the root; every path readExt gives to ReadFile (at most three), and every
\* path tried for a link, lies strictly below the root as well.
C7_NeverOutsideRoot ==
    Done =>
        /\ \A i \in 1..Len(out.opened) : StrictlyBelowRoot(out.opened[i])
        /\ req.op = "read" =>
              \/ out.err = "directory traversal attack" /\ out.opened = <<>>
              \/ out.err # "directory traversal attack" /\ Len(out.opened) = 1
        /\ req.op = "readExt" => Len(out.opened) <= 3

\* read("../a") was refused although the file /a outside the root exists
C7_Witness ==
    /\ Done
    /\ req.op = "read"
    /\ req.name = <<".", ".", "/", "a">>
    /\ Outside \in files
    /\ out.err = "directory traversal attack"
    /\ out.opened = <<>>

\* the i-th name readExt tries, and whether a read of it succeeds
Candidate(name, i) == IF i = 1 THEN name \o MD ELSE IF i = 2 THEN name \o HTML ELSE name
ReadableFile(f) == HasPrefix(f, Base \o Sep) /\ f \in files
Readable(n) == ReadableFile(Clean(Base \o Sep \o n))

\* C8: readExt(name) returns the content of the first readable one of
\* name + ".md", name + ".html", name, in this order; it fails only when none
\* of the three is readable, and then with the error of the read of name.
C8_FirstReadableCandidate ==
    (Done /\ req.op = "readExt") =>
        IF \E i \in 1..3 : Readable(Candidate(req.name, i))
        THEN LET first == CHOOSE i \in 1..3 :
                            /\ Readable(Candidate(req.name, i))
                            /\ \A j \in 1..(i - 1) : ~Readable(Candidate(req.name, j))
             IN /\ out.err = "nil"
                /\ out.data = Clean(Base \o Sep \o Candidate(req.name, first))
        ELSE out.err = IF HasPrefix(Clean(Base \o Sep \o req.name), Base \o Sep)
                       THEN "no such file"
                       ELSE "directory traversal attack"

\* a.md and a.html both exist and readExt("/a") returned a.md
C8_Witness ==
    /\ Done
    /\ req.op = "readExt"
    /\ req.name = <<"/", "a">>
    /\ F_a_md \in files
    /\ F_a_html \in files
    /\ out.data = F_a_md

\* C9: an <a> element with an href is never given both broken-link and
\* external-link; when its href has a non-empty host it is given external-link
\* and no file is looked up for it.
C9_BrokenOrExternal ==
    (Done /\ req.op = "annotate" /\ HasHref(req.attrs)) =>
        /\ ~({"broken-link", "external-link"} \subseteq ClassTokens(out.attrs))
        /\ (~FirstHref(req.attrs).err /\ Len(FirstHref(req.attrs).host) > 0) =>
              /\ "external-link" \in ClassTokens(out.attrs)
              /\ "broken-link" \notin ClassTokens(out.attrs)
              /\ out.opened = <<>>

\* a link to a host was marked external although its path names nothing on disk
C9_Witness ==
    /\ Done
    /\ req.op = "annotate"
    /\ req.attrs = <<Href(Url(<<"h">>, <<"/", "a">>))>>
    /\ files = {Outside}
    /\ ClassTokens(out.attrs) = {"external-link"}
    /\ out.opened = <<>>

\* the path a host-less href designates on the page at urlPath: its own path
\* when it starts at the root, else relative to the directory of the page
Designates(urlPath, p) ==
    IF p # <<>> /\ p[1] = "/" THEN Clean(p) ELSE Join(<<Dir(urlPath), p>>)
\* a page, or the index of a directory, is found under that path
Resolves(p) ==
    \/ \E i \in 1..3 : Readable(Candidate(p, i))
    \/ \E i \in 1..3 : Readable(Candidate(p \o Sep \o INDEX, i))

\* C10 as claimed: on every page, an <a> element whose one href parses and has
\* no host is given broken-link exactly when the path the href designates
\* resolves neither to a page nor to the index of a directory.
C10_BrokenIffMissing ==
    (/\ Done
     /\ req.op = "annotate"
     /\ Len(req.attrs) = 1
     /\ HasHref(req.attrs)
     /\ ~FirstHref(req.attrs).err
     /\ FirstHref(req.attrs).host = <<>>)
    => ("broken-link" \in ClassTokens(out.attrs)
          <=> ~Resolves(Designates(req.name, FirstHref(req.attrs).path)))

\* ------------------------------------------------ expiry, seen from outside
\* the goroutine in its critical section finishes it in this step: no caller
\* moves and the mutex is handed back
Checks(w) == w.pc = "check" /\ mutex = Locked /\ mutex' = Unlocked /\ pc' = pc
\* the number of running expiry goroutines of page p
RECURSIVE CountOn(_, _, _)
CountOn(b, ws, p) ==
    IF ws = {} THEN 0
    ELSE LET w == CHOOSE x \in ws : TRUE
         IN (IF w.page = p THEN CopiesIn(w, b) ELSE 0) + CountOn(b, ws \ {w}, p)
Watching(b, p) == CountOn(b, BagToSet(b), p)

\* C13: whenever an expiry goroutine makes its check under the mutex at a time
\* now that is not before the expiry stored for its page (now >= expiresAt,
\* the boundary now = expiresAt included), it removes the entry in that step
\* and does not go back to sleep.
C13_RemovedOnceDue ==
    [][\A w \in Running :
         (/\ Checks(w)
          /\ Has(lockExpires, w.page)
          /\ now >= lockExpires[w.page])
         => /\ ~Has(locks', w.page)
            /\ ~Has(lockExpires', w.page)
            /\ watch' = Exit(watch, w)]_vars

\* C14: a successful lockOrExtend on a page that has exactly one expiry
\* goroutine if it is locked and none if it is not, leaves the page with
\* exactly one expiry goroutine: extensions do not accumulate goroutines.
C14_OneWatcherPerPage ==
    [][\A c \in Callers :
         (/\ pc[c] = "set"
          /\ pc'[c] = "idle"
          /\ Watching(watch, call[c].page)
               = (IF Has(locks, call[c].page) THEN 1 ELSE 0))
         => Watching(watch', call[c].page) = 1]_vars

\* C17: a lockOrExtend(p, B) that finds p with an entry of another token whose
\* expiry is earlier than now is not refused by it: it goes on to write its
\* own entry, whether or not an expiry goroutine has run.
C17_ExpiredEntryDoesNotRefuse ==
    [][\A c \in Callers :
         (/\ pc[c] = "check"
          /\ pc'[c] # "check"
          /\ call[c].op = "lockOrExtend"
          /\ Has(locks, call[c].page)
          /\ locks[call[c].page] # call[c].lock
          /\ lockExpires[call[c].page] < now)
         => pc'[c] = "set"]_vars

\* C19: whenever the mutex is not held, locks and lockExpires have the same
\* keys: a page has a token exactly when it has an expiry time.
C19_SameKeys ==
    mutex = Unlocked => DOMAIN locks = DOMAIN lockExpires

\* the mutex is free, one page is locked and the other has lost its entry to
\* an expiry goroutine
C19_Witness ==
    /\ mutex = Unlocked
    /\ last.op = "expire"
    /\ \E p \in Pages, q \in Pages :
        /\ Has(locks, p) /\ Has(lockExpires, p)
        /\ ~Has(locks, q) /\ ~Has(lockExpires, q)

\* a sleeping goroutine of page p wakes within the horizon of the clock
Wakes(w) == w.pc = "sleep" => \E t \in Instants : t >= w.expires
AllWake(p) == \A w \in Running : w.page = p => Wakes(w)

\* C20: under fair scheduling and an advancing clock the expiry goroutines of
\* a page all return, unless lockOrExtend succeeds on the page again: those of
\* a page whose entry has expiry e, once e has passed, and those of a page
\* whose entry is gone (removed by unlock or by another goroutine), which find
\* no entry and return.  A goroutine that finds an entry that is not due
\* removes nothing and sleeps until that entry's expiry.
C20_WatchersTerminate ==
    /\ \A p \in LivePages : \A e \in Deadlines :
         (Watching(watch, p) > 0 /\ Has(lockExpires, p) /\ lockExpires[p] = e)
         ~> (Watching(watch, p) = 0 \/ (Has(lockExpires, p) /\ lockExpires[p] > e))
    /\ \A p \in LivePages :
         (Watching(watch, p) > 0 /\ ~Has(lockExpires, p) /\ AllWake(p))
         ~> (Watching(watch, p) = 0 \/ Has(lockExpires, p))
    /\ [][\A w \in Running :
            (/\ Checks(w)
             /\ Has(lockExpires, w.page)
             /\ lockExpires[w.page] > now)
            => /\ locks' = locks
               /\ lockExpires' = lockExpires
               /\ watch' = Step(watch, w, [w EXCEPT !.pc = "sleep",
                                                    !.expires = lockExpires[w.page]])]_vars

\* unlock has removed a page's entry and an expiry goroutine of that page is
\* still running
C20_Witness ==
    /\ last = [op |-> "unlock", out |-> "ok"]
    /\ \E p \in LivePages : ~Has(locks, p) /\ Watching(watch, p) > 0

\* the values of the class attributes of an element, in order
ClassValues(attrs) ==
    SelectSeq([i \in 1..Len(attrs) |->
                 IF attrs[i].key = "class" THEN <<attrs[i].class>> ELSE <<>>],
              LAMBDA v : v # <<>>)
IsPrefix(s, t) == Len(s) <= Len(t) /\ SubSeq(t, 1, Len(s)) = s

\* C15: a second run of the annotator on an element it has annotated (same
\* page, same files) leaves the element's class attributes as they were, with
\* no broken-link or external-link token twice; and one run keeps the tokens an
\* element had, in their order, in front of what it adds.
C15_AnnotateIdempotent ==
    /\ (Done /\ req.op = "reannotate") => ClassValues(out.attrs) = ClassValues(req.attrs)
    /\ (Done /\ req.op \in {"annotate", "reannotate"}) =>
          /\ Len(out.attrs) >= Len(req.attrs)
          /\ \A i \in 1..Len(req.attrs) :
                /\ out.attrs[i].key = req.attrs[i].key
                /\ IsPrefix(req.attrs[i].class, out.attrs[i].class)

\* C16: read("") and readExt("") return the root's index page when the root
\* has one, and neither the traversal error nor a not-found error.
C16_EmptyNameIsIndex ==
    (/\ Done
     /\ req.op \in {"read", "readExt"}
     /\ req.name = <<>>
     /\ F_index_md \in files)
    => /\ out.err = "nil"
       /\ out.data = F_index_md
\* ------------------------------------------------------------------ C11
\* a step in which handle writes a response: an answer given at once, or the
\* return of the lockOrExtend it called
Responds ==
    \/ http' # http
    \/ \E c \in Connections : pc[c] # "idle" /\ pc'[c] = "idle"
TableChanges == locks' # locks \/ lockExpires' # lockExpires
Authenticated(r) == ~Denied(files, r)
LockRequest(r) == r # NoRequest /\ HasSuffix(r.path, LockSuffix)
\* the status the chain of section 6 gives a lock request, the table being m
ChainFound(r, found, m) ==
    IF found.err # "nil" THEN 404
    ELSE IF r.body = "" THEN 400
    ELSE IF Has(m, Page(r)) /\ m[Page(r)] # r.body THEN 409
    ELSE 200
ChainStatus(r, m) ==
    IF r.method # "POST" THEN 405 ELSE ChainFound(r, readExt(files, Page(r)), m)
ChainStep(r, resp) ==
    /\ resp.status = ChainStatus(r, locks)
    /\ resp.status = 405 => resp.allow = "POST"
    /\ resp.status # 200 => ~TableChanges
OnlyOn200 ==
    TableChanges =>
        /\ Responds
        /\ LockRequest(http'.req)
        /\ http'.resp.status = 200

\* C11 as stated: every authenticated request whose path ends in "/.lock" is
\* answered 405 with Allow: POST if it is not a POST, else 404 if its page does
\* not resolve, else 400 if its body is empty, else 409 if the page is locked
\* by another token, else 200; only a 200 changes the lock table.
C11_LockStatusChain ==
    [][/\ (Responds /\ LockRequest(http'.req) /\ Authenticated(http'.req))
              => ChainStep(http'.req, http'.resp)
       /\ OnlyOn200]_vars

\* C11 amended: the same, for the authenticated requests whose path ends in
\* "/.lock" and does not start with "/.auth/"; a path that starts with "/.auth/"
\* is answered by the cookie-setting redirect whatever it ends in.
C11_LockStatusChainOutsideAuth ==
    [][/\ (/\ Responds
           /\ LockRequest(http'.req)
           /\ Authenticated(http'.req)
           /\ ~HasPrefix(http'.req.path, AuthPrefix))
              => ChainStep(http'.req, http'.resp)
       /\ OnlyOn200]_vars

\* a lock refused with 409: the chain has run to its fourth case
C11_Witness ==
    /\ LockRequest(http.req)
    /\ ~HasPrefix(http.req.path, AuthPrefix)
    /\ Authenticated(http.req)
    /\ http.resp.status = 409
    /\ Has(locks, Page(http.req))
    /\ locks[Page(http.req)] # http.req.body

\* ------------------------------------------------------------------ C12
\* a request outside "/.auth/" without a nerka cookie equal to the secret
Unauthenticated(r) ==
    /\ r # NoRequest
    /\ ~HasPrefix(r.path, AuthPrefix)
    /\ (~r.cookie.set \/ r.cookie.value # Secret)
\* the request reaches lockOrExtend in this step
Passes(r) == \E c \in Connections : call'[c].req = r /\ call[c].req # r

\* what a step does with the requests that lack the secret
DeniedStep ==
    /\ (Responds /\ Unauthenticated(http'.req)) =>
          /\ http'.resp.status = 403
          /\ http'.resp.data = <<>>
          /\ http'.resp.cookie = NoCookie
          /\ ~TableChanges
          /\ UNCHANGED <<pc, call, watch, mutex>>
    /\ \A r \in HttpRequests : Unauthenticated(r) => ~Passes(r)

\* C12: while .auth exists, a request outside "/.auth/" whose cookie is missing
\* or differs from the trimmed contents of .auth is answered 403 without any
\* file's content, changes neither the lock table nor the watchers, and never
\* reaches lockOrExtend.
C12_DeniedWithoutSecret == [][(F_auth \in files) => DeniedStep]_vars

\* a lock posted without the cookie, and a page asked for with a cookie that is
\* the untrimmed secret, both refused while a lock is held
C12_Witness ==
    /\ F_auth \in files
    /\ locks # <<>>
    /\ Unauthenticated(http.req)
    /\ http.resp.status = 403
    /\ \/ http.req.cookie = Cookie(Secret \o <<"\n">>)
       \/ (LockRequest(http.req) /\ http.req.method = "POST" /\ http.req.body # "")

\* ------------------------------------------------------------------ C18
\* the entry of page p is in the table and has not expired
Held(p) == Has(locks, p) /\ Has(lockExpires, p) /\ lockExpires[p] > now
\* two page names that readExt resolves to one file
SameFileOf(f, g) == f.err = "nil" /\ g.err = "nil" /\ f.data = g.data
SameFile(p, q) == SameFileOf(readExt(files, p), readExt(files, q))

\* C18: no two different tokens hold unexpired locks, taken by POST of
\* <page>/.lock, on page names that readExt resolves to the same file.
C18_ExclusivePerFile ==
    \A p \in DOMAIN locks : \A q \in DOMAIN locks :
        (Held(p) /\ Held(q) /\ SameFile(p, q)) => locks[p] = locks[q]

============================================================================
